---------------------------- MODULE Spec2Model ----------------------------
(***************************************************************************)
(* One evaluation (and one re-evaluation on perturbed inputs) of the       *)
(* space-time GMRF objective of "Model application/space_time_GSTMEM.cpp". *)
(*                                                                         *)
(* Reals are fixed-point integers: the integer v stands for v / Unit.      *)
(* Counts c_i and all indices are plain integers.  Products and quotients  *)
(* round to nearest, symmetrically in the sign (as IEEE arithmetic does).  *)
(***************************************************************************)
EXTENDS Integers, Sequences, FiniteSets, TLC

(***************************************************************************)
(* Bounds of the model.                                                    *)
(***************************************************************************)
MaxNs == 2
MaxNt == 2
MaxNi == 2

(***************************************************************************)
(* Scalar arithmetic of Type.                                              *)
(***************************************************************************)
Unit == 1000

NA == -1

Abs(x) == IF x < 0 THEN -x ELSE x

\* p / q to the nearest integer, halves away from zero (q > 0)
RoundUp(p, q) == (p \div q) + (IF 2 * (p % q) >= q THEN 1 ELSE 0)

Round(p, q) == IF p >= 0 THEN RoundUp(p, q) ELSE -RoundUp(-p, q)

Mul(a, b) == Round(a * b, Unit)

Div(a, b) == IF b > 0 THEN Round(a * Unit, b) ELSE -Round(a * Unit, -b)

\* e^(k/2) for k = -16 .. 14, in units of 1/1000000
ExpTable == << 335, 553, 912, 1503, 2479, 4087, 6738, 11109, 18316, 30197,
               49787, 82085, 135335, 223130, 367879, 606531, 1000000,
               1648721, 2718282, 4481689, 7389056, 12182494, 20085537,
               33115452, 54598150, 90017131, 148413159, 244691932,
               403428793, 665141633, 1096633158 >>

\* e^(r/Unit) - 1 for -250 <= r <= 250, in units of 1/1000000: the Taylor series
ExpSeries(r) ==
  LET t1 == r * 1000
      t2 == Round(t1 * r, 2000)
      t3 == Round(t2 * r, 3000)
      t4 == Round(t3 * r, 4000)
      t5 == Round(t4 * r, 5000)
      t6 == Round(t5 * r, 6000)
  IN  t1 + t2 + t3 + t4 + t5 + t6

\* e^x for -8250 < x < 7250 in units of 1/1000000: the nearest table entry a
\* times the series, a + a * g / 1000000 with a split in three to fit
ExpMicro(x) ==
  LET k == Round(x, 500)
      a == ExpTable[k + 17]
      g == ExpSeries(x - 500 * k)
  IN  a + (a \div 1000000) * g
        + Round(((a \div 1000) % 1000) * g, 1000)
        + Round((a % 1000) * g, 1000000)

\* e^x.  From -8250 down the value is less than half of 1/Unit; from 7250 up
\* it is e^7 = 1096.633158 times e^(x - 7), which fits the integers below 14250
Exp(x) ==
  IF x <= -8250 THEN 0
  ELSE IF x < 7250 THEN Round(ExpMicro(x), 1000)
  ELSE LET m == ExpMicro(x - 7000) IN
       m + (m \div 100000) * 9663 + Round((m \div 100000) * 316, 1000)
         + Round((m % 100000) * 9663, 100000)

\* 2 * atanh((x - p) / (x + p)) in units of 1/10000, for p <= x < 2p
LnSeries(x, p) ==
  LET z  == ((x - p) * 10000) \div (x + p)
      w  == (z * z) \div 10000
      t3 == (z * w) \div 10000
      t5 == (t3 * w) \div 10000
      t7 == (t5 * w) \div 10000
      t9 == (t7 * w) \div 10000
  IN  2 * (z + t3 \div 3 + t5 \div 5 + t7 \div 7 + t9 \div 9)

\* log(x) in units of 1/100000, by log(2 x) = log(2) + log(x)
RECURSIVE LnAbove(_, _, _)
LnAbove(x, p, acc) ==
  IF x >= 2 * p THEN LnAbove(x, 2 * p, acc + 69315) ELSE acc + 10 * LnSeries(x, p)

RECURSIVE Ln5(_)
Ln5(x) ==
  IF x < Unit THEN Ln5(2 * x) - 69315
  ELSE IF x >= 200 * Unit THEN Ln5(Round(x, 2)) + 69315
  ELSE LnAbove(x, Unit, 0)

\* natural logarithm of x > 0 (log(0) and the logarithm of a negative
\* number are not finite and have no value here)
Ln(x) == Round(Ln5(x), 100)

RECURSIVE Newton(_, _)
Newton(n, r) ==
  LET r2 == (r + n \div r) \div 2 IN IF r2 >= r THEN r ELSE Newton(n, r2)

Sqrt(x) == IF x <= 0 THEN 0 ELSE Newton(x * Unit, x * Unit)

RECURSIVE Fact(_)
Fact(c) == IF c <= 0 THEN 1 ELSE c * Fact(c - 1)

\* lgamma(x + 1) for an integer count x
LGamma1(c) == Ln(Fact(c) * Unit)

(***************************************************************************)
(* Vectors, arrays and sparse matrices are functions on 0 .. n-1.          *)
(***************************************************************************)
Idx(n) == 0 .. (n - 1)

Size(v) == Cardinality(DOMAIN v)

RECURSIVE SumFn(_, _)
SumFn(f, n) == IF n <= 0 THEN 0 ELSE f[n - 1] + SumFn(f, n - 1)

Zero3 == [k \in 0 .. 2 |-> 0]


(***************************************************************************)
(* Program state.  Inputs (DATA_* and PARAMETER* of lines 14-35), the      *)
(* locals of operator() (lines 39-78), what the call reports and returns,  *)
(* and history variables recording what the evaluation did.                *)
(***************************************************************************)
VARIABLES
  n_s, n_t, a_s, c_i, s_i, t_i,          \* data
  M0, M1, M2,                            \* SPDE objects
  beta0, ln_tau_O, ln_tau_E, ln_kappa,   \* parameters
  omega_s, epsilon_st,                   \* random effects
  pc,                                    \* position in operator()
  n_i, jnll_comp, Range, SigmaO, SigmaE, Q, log_d_st, jnll, t, s, i,
  nonfinite,                             \* jnll_comp(0) is NaN or infinite
  beyond,     \* jnll_comp(0) is finite but outside the range of Exp and Ln
  report, ret,                           \* REPORT / ADREPORT / return value
  evals,      \* density evaluations so far: which field, which slice, which Q
  qBuilds,    \* how many times Q was constructed in this evaluation
  contrib,    \* what each observation added to jnll_comp(0)
  written,    \* how many times each cell of log_d_st was assigned
  run, prev, xf   \* evaluation number, the previous evaluation, what changed

inputs  == << n_s, n_t, a_s, c_i, s_i, t_i, M0, M1, M2,
              beta0, ln_tau_O, ln_tau_E, ln_kappa, omega_s, epsilon_st >>
flags   == << nonfinite, beyond >>
locals  == << n_i, jnll_comp, Range, SigmaO, SigmaE, Q, log_d_st, jnll, t, s, i,
              flags >>
outputs == << report, ret >>
history == << evals, qBuilds, contrib, written >>
calls   == << run, prev, xf >>
vars    == << inputs, pc, locals, outputs, history, calls >>

(***************************************************************************)
(* Line 4-7: isNA.                                                         *)
(***************************************************************************)
\* a test that also takes a count of zero for missing
isNAOrZero(x) == x = NA \/ x = 0

isNA(x) == x = NA

(***************************************************************************)
(* Lines 44-46: derived quantities.                                        *)
(***************************************************************************)
RangeOf(lk) == Div(Sqrt(8 * Unit), Exp(lk))

FourPi == 12566

SigmaOf(lt, lk) == Div(Unit, Sqrt(Mul(Mul(FourPi, Exp(2 * lt)), Exp(2 * lk))))

(***************************************************************************)
(* Line 56: Q = exp(4*ln_kappa)*M0 + 2*exp(2*ln_kappa)*M1 + M2.            *)
(***************************************************************************)
PrecisionQ ==
  [a \in Idx(n_s) |-> [b \in Idx(n_s) |->
      Mul(Exp(4 * ln_kappa), M0[a][b])
    + Mul(Mul(2 * Unit, Exp(2 * ln_kappa)), M1[a][b])
    + M2[a][b]]]

(***************************************************************************)
(* density::GMRF(Q): the log-determinant from the LDL' factorization of Q, *)
(* the quadratic form x'Qx, and the negative log-density                   *)
(*   -logdetQ/2 + Quadform(x)/2 + size(x) * log(sqrt(2 pi)).               *)
(***************************************************************************)
RECURSIVE CholD(_, _), CholL(_, _, _)
CholD(A, j) ==
  A[j][j] - SumFn([k \in Idx(j) |->
                     Mul(Mul(CholL(A, j, k), CholL(A, j, k)), CholD(A, k))], j)
CholL(A, a, j) ==
  Div(A[a][j] - SumFn([k \in Idx(j) |->
                     Mul(Mul(CholL(A, a, k), CholL(A, j, k)), CholD(A, k))], j),
      CholD(A, j))

LogDet(A) == LET m == Size(A) IN SumFn([j \in Idx(m) |-> Ln(CholD(A, j))], m)

MatVec(A, x) ==
  LET m == Size(x) IN [a \in Idx(m) |-> SumFn([b \in Idx(m) |-> Mul(A[a][b], x[b])], m)]

\* the elementwise product with x left out
QuadformLinear(A, x) ==
  LET m == Size(x)
      y == MatVec(A, x)
  IN  SumFn([a \in Idx(m) |-> y[a]], m)

Quadform(A, x) ==
  LET m == Size(x)
      y == MatVec(A, x)
  IN  SumFn([a \in Idx(m) |-> Mul(x[a], y[a])], m)

LogSqrt2Pi == 919

\* the quadratic form subtracted
GMRFMinusQuad(A, x) ==
  Round(-LogDet(A), 2) - Round(Quadform(A, x), 2) + Size(x) * LogSqrt2Pi

GMRF(A, x) ==
  Round(-LogDet(A), 2) + Round(Quadform(A, x), 2) + Size(x) * LogSqrt2Pi

(***************************************************************************)
(* density::SCALE(f, scale)(x) = f(x / scale) + size(x) * log(scale).      *)
(***************************************************************************)
SCALE_GMRF(A, scale, x) ==
  GMRF(A, [a \in DOMAIN x |-> Div(x[a], scale)]) + Size(x) * Ln(scale)

\* line 57: the scale of the spatial field; line 59: of every time slice
ScaleO == Div(Unit, Exp(ln_tau_O))

\* the time slices scaled by the spatial field's parameter
ScaleEFromTauO == Div(Unit, Exp(ln_tau_O))

ScaleE == Div(Unit, Exp(ln_tau_E))

\* line 59: epsilon_st.col(t)
Col(e, tt) == [a \in DOMAIN e |-> e[a][tt]]

\* line 58: t++
\* a loop that steps over every other time slice
TimeLoopNextSkip(tt) == tt + 2

TimeLoopNext(tt) == tt + 1

(***************************************************************************)
(* Line 67: the log-density of site s at time t.                           *)
(***************************************************************************)
\* the spatial effect left out
LogDensityNoOmega(ss, tt) == beta0 + epsilon_st[ss][tt]

LogDensity(ss, tt) == beta0 + omega_s[ss] + epsilon_st[ss][tt]

(***************************************************************************)
(* Line 72: dpois(x, lambda, true) = -lambda + x*log(lambda) - lgamma(x+1) *)
(* at lambda = exp(log_d), and the slot of jnll_comp the data term uses.   *)
(***************************************************************************)
dpois(x, lambda) == -lambda + x * Ln(lambda) - LGamma1(x)

\* the data term accumulated in the spatial slot
DataSlotSpatial == 2 - 1

DataSlot == 0

\* += where the source has -=
DataTermAfterPlus(acc, x, logd) == acc + dpois(x, Exp(logd))

DataTermAfter(acc, x, logd) == acc - dpois(x, Exp(logd))


(***************************************************************************)
(* The inputs the evaluations are run on.                                  *)
(***************************************************************************)
\* a one-dimensional mesh of n nodes: lumped mass M0 = I, stiffness M1 = G,
\* M2 = G * G; and the degenerate mesh M0 = M1 = 0, M2 = I
ChainG(n) ==
  [a \in Idx(n) |-> [b \in Idx(n) |->
     IF a = b THEN (IF n = 1 THEN 0 ELSE IF a \in {0, n - 1} THEN 1 ELSE 2)
     ELSE IF Abs(a - b) = 1 THEN -1 ELSE 0]]

Ident(n) == [a \in Idx(n) |-> [b \in Idx(n) |-> IF a = b THEN Unit ELSE 0]]

Zeros(n) == [a \in Idx(n) |-> [b \in Idx(n) |-> 0]]

Meshes(n) ==
  LET G == ChainG(n) IN
  { [M0 |-> Zeros(n), M1 |-> Zeros(n), M2 |-> Ident(n)],
    [M0 |-> Ident(n),
     M1 |-> [a \in Idx(n) |-> [b \in Idx(n) |-> Unit * G[a][b]]],
     M2 |-> [a \in Idx(n) |-> [b \in Idx(n) |->
               Unit * SumFn([k \in Idx(n) |-> G[a][k] * G[k][b]], n)]]] }

ChainMesh(n) == CHOOSE m \in Meshes(n) : m.M0 = Ident(n)

OmegaFields(n) ==
  { [a \in Idx(n) |-> 0],
    [a \in Idx(n) |-> IF a % 2 = 0 THEN 500 ELSE -1000],
    [a \in Idx(n) |-> 500 * a - 500] }

EpsilonFields(n, m) ==
  { [a \in Idx(n) |-> [b \in Idx(m) |-> 0]],
    [a \in Idx(n) |-> [b \in Idx(m) |-> 500 * ((a + 2 * b) % 3) - 500]],
    [a \in Idx(n) |-> [b \in Idx(m) |-> IF b = 0 THEN 1000 ELSE -500 * ((a + b) % 2)]] }

Counts == {NA, 0, 2}

\* survey designs: which site and time the k-th observation was made at
Designs == 0 .. 2

SiteOf(d, k, n) == IF d = 0 THEN k % n ELSE IF d = 1 THEN n - 1 - (k % n) ELSE 0

TimeOf(d, k, n, m) ==
  IF d = 0 THEN (k \div n) % m
  ELSE IF d = 1 THEN m - 1 - ((k \div n) % m)
  ELSE k % m

ValidObs ==
  /\ DOMAIN c_i = DOMAIN s_i /\ DOMAIN c_i = DOMAIN t_i
  /\ \A k \in DOMAIN c_i : s_i[k] \in Idx(n_s) /\ t_i[k] \in Idx(n_t)

(***************************************************************************)
(* The state on entry to operator(): the locals hold nothing yet.          *)
(***************************************************************************)
NoXf == [kind |-> "none", D |-> {}, col |-> 0, perm |-> << >>]

Entry ==
  /\ pc = "entry"
  /\ n_i = 0 /\ jnll_comp = Zero3 /\ Range = 0 /\ SigmaO = 0 /\ SigmaE = 0
  /\ Q = << >> /\ log_d_st = << >> /\ jnll = 0 /\ t = 0 /\ s = 0 /\ i = 0
  /\ nonfinite = FALSE /\ beyond = FALSE
  /\ report = << >> /\ ret = 0
  /\ evals = << >> /\ qBuilds = 0 /\ contrib = << >> /\ written = << >>
  /\ run = 1 /\ prev = << >> /\ xf = NoXf

\* many observation lists on one mesh and one pair of fields
InitData ==
  /\ n_s = MaxNs /\ n_t = MaxNt
  /\ a_s = [a \in Idx(n_s) |-> Unit]
  /\ \E m \in {ChainMesh(n_s)} : M0 = m.M0 /\ M1 = m.M1 /\ M2 = m.M2
  /\ beta0 \in {0, 500} /\ ln_tau_O = 0 /\ ln_tau_E = 1000 /\ ln_kappa = 0
  /\ omega_s = [a \in Idx(n_s) |-> IF a % 2 = 0 THEN 500 ELSE -1000]
  /\ epsilon_st = [a \in Idx(n_s) |-> [b \in Idx(n_t) |-> 500 * ((a + 2 * b) % 3) - 500]]
  /\ \E n \in 0 .. MaxNi, d \in Designs :
       /\ c_i \in [Idx(n) -> Counts]
       /\ s_i = [k \in Idx(n) |-> SiteOf(d, k, n_s)]
       /\ t_i = [k \in Idx(n) |-> TimeOf(d, k, n_s, n_t)]
  /\ Entry

\* many meshes, parameters and fields under one observation list
InitField ==
  /\ n_s \in {1, MaxNs} /\ n_t \in {1, MaxNt}
  /\ a_s = [a \in Idx(n_s) |-> Unit]
  /\ \E m \in Meshes(n_s) : M0 = m.M0 /\ M1 = m.M1 /\ M2 = m.M2
  /\ beta0 = 500 /\ ln_kappa \in {0, 500}
  /\ \E tau \in { <<0, 0>>, <<1000, -500>>, <<-500, 1000>> } :
       ln_tau_O = tau[1] /\ ln_tau_E = tau[2]
  /\ omega_s \in OmegaFields(n_s)
  /\ epsilon_st \in EpsilonFields(n_s, n_t)
  /\ c_i = [k \in Idx(2) |-> IF k = 0 THEN 2 ELSE 0]
  /\ s_i = [k \in Idx(2) |-> SiteOf(0, k, n_s)]
  /\ t_i = [k \in Idx(2) |-> TimeOf(0, k, n_s, n_t)]
  /\ Entry

Init == InitData \/ InitField


(***************************************************************************)
(* Lines 39-46: n_i, jnll_comp.setZero(), Range, SigmaO, SigmaE.           *)
(***************************************************************************)
Start ==
  /\ pc = "entry"
  /\ n_i' = Size(c_i)
  /\ jnll_comp' = Zero3
  /\ Range' = RangeOf(ln_kappa)
  /\ SigmaO' = SigmaOf(ln_tau_O, ln_kappa)
  /\ SigmaE' = SigmaOf(ln_tau_E, ln_kappa)
  /\ contrib' = [k \in DOMAIN c_i |-> 0]
  /\ pc' = "buildQ"
  /\ UNCHANGED << flags, inputs, Q, log_d_st, jnll, t, s, i, outputs,
                  evals, qBuilds, written, calls >>

(***************************************************************************)
(* Line 56: the precision matrix.                                          *)
(***************************************************************************)
BuildQ ==
  /\ pc = "buildQ"
  /\ Q' = PrecisionQ
  /\ qBuilds' = qBuilds + 1
  /\ pc' = "spatial"
  /\ UNCHANGED << flags, inputs, n_i, jnll_comp, Range, SigmaO, SigmaE, log_d_st, jnll,
                  t, s, i, outputs, evals, contrib, written, calls >>

(***************************************************************************)
(* Line 57: jnll_comp(1) += SCALE(GMRF(Q), 1/exp(ln_tau_O))(omega_s).      *)
(***************************************************************************)
Spatial ==
  /\ pc = "spatial"
  /\ LET d == SCALE_GMRF(Q, ScaleO, omega_s) IN
       /\ jnll_comp' = [jnll_comp EXCEPT ![1] = @ + d]
       /\ evals' = Append(evals, [field |-> "omega_s", slice |-> 0, Q |-> Q,
                                  scale |-> ScaleO, value |-> d])
  /\ t' = 0
  /\ pc' = IF 0 < n_t THEN "time" ELSE "alloc"
  /\ UNCHANGED << flags, inputs, n_i, Range, SigmaO, SigmaE, Q, log_d_st, jnll, s, i,
                  outputs, qBuilds, contrib, written, calls >>

(***************************************************************************)
(* Lines 58-60: one iteration of the loop over time steps.                 *)
(***************************************************************************)
TimeSlice ==
  /\ pc = "time" /\ t < n_t
  /\ LET d == SCALE_GMRF(Q, ScaleE, Col(epsilon_st, t)) IN
       /\ jnll_comp' = [jnll_comp EXCEPT ![2] = @ + d]
       /\ evals' = Append(evals, [field |-> "epsilon_st", slice |-> t, Q |-> Q,
                                  scale |-> ScaleE, value |-> d])
  /\ t' = TimeLoopNext(t)
  /\ pc' = IF t' < n_t THEN "time" ELSE "alloc"
  /\ UNCHANGED << flags, inputs, n_i, Range, SigmaO, SigmaE, Q, log_d_st, jnll, s, i,
                  outputs, qBuilds, contrib, written, calls >>

(***************************************************************************)
(* Line 64: array<Type> log_d_st(n_s, n_t): the constructor fills the      *)
(* array with zeros.                                                       *)
(***************************************************************************)
ObsOrReport == IF 0 < n_i THEN "obs" ELSE "report"

Alloc ==
  /\ pc = "alloc"
  /\ log_d_st' = [a \in Idx(n_s) |-> [b \in Idx(n_t) |-> 0]]
  /\ written' = [a \in Idx(n_s) |-> [b \in Idx(n_t) |-> 0]]
  /\ t' = 0 /\ s' = 0 /\ i' = 0
  /\ pc' = IF 0 < n_t /\ 0 < n_s THEN "surface" ELSE ObsOrReport
  /\ UNCHANGED << flags, inputs, n_i, jnll_comp, Range, SigmaO, SigmaE, Q, jnll,
                  outputs, evals, qBuilds, contrib, calls >>

(***************************************************************************)
(* Lines 65-68: one assignment of the nested loops, t outer, s inner.      *)
(***************************************************************************)
SurfaceCell ==
  /\ pc = "surface" /\ t < n_t /\ s < n_s
  /\ log_d_st' = [log_d_st EXCEPT ![s][t] = LogDensity(s, t)]
  /\ written' = [written EXCEPT ![s][t] = @ + 1]
  /\ IF s + 1 < n_s THEN s' = s + 1 /\ t' = t
                    ELSE s' = 0 /\ t' = t + 1
  /\ pc' = IF t' < n_t THEN "surface" ELSE ObsOrReport
  /\ UNCHANGED << flags, inputs, n_i, jnll_comp, Range, SigmaO, SigmaE, Q, jnll, i,
                  outputs, evals, qBuilds, contrib, calls >>

(***************************************************************************)
(* Lines 71-72: one iteration of the loop over observations.  Reading a    *)
(* vector or the array outside its bounds is undefined.  A build with      *)
(* bounds checking aborts the evaluation (as does a read the system        *)
(* refuses).  Any other build reads whatever lies at the address: another  *)
(* cell of the array when the flattened, column-major index s + n_s * t is *)
(* inside it, else any integer for an index and, for a cell, whatever the  *)
(* memory around the array holds: another number of this evaluation        *)
(* (LiveCells: a component of jnll_comp, a derived quantity, a parameter,  *)
(* a random effect, an entry of Q or of the data), some other finite       *)
(* number (StrayFixed samples these, from e^-4 to e^5.864), NaN or an      *)
(* infinity.  A number x read as a cell goes through exp: above 709.782    *)
(* exp(x) is infinite and below -745.133 it is 0, and either way the data  *)
(* term is no longer finite; from 14.25 up and from -8.25 down the term is *)
(* finite but outside the range Exp and Ln represent, which the evaluation *)
(* records in beyond, leaving jnll_comp(0) as it was.                      *)
(***************************************************************************)
Got(v) == [st |-> "value", val |-> v]

Aborted == [st |-> "abort", val |-> 0]

NotFinite == [st |-> "nan", val |-> 0]

Beyond == [st |-> "beyond", val |-> 0]

StrayIndex == {-1, 0, 1, 7}

StrayFixed == {-4000, -500, 0, 1500, 5864}

Entries(m) == UNION {{m[a][b] : b \in DOMAIN m[a]} : a \in DOMAIN m}

Values(v) == {v[a] : a \in DOMAIN v}

\* the numbers of this evaluation that memory outside log_d_st can hold
LiveCells ==
  (IF nonfinite \/ beyond THEN {} ELSE {jnll_comp[0]})
  \cup {jnll_comp[1], jnll_comp[2], jnll, Range, SigmaO, SigmaE}
  \cup {beta0, ln_tau_O, ln_tau_E, ln_kappa}
  \cup Values(omega_s) \cup Entries(epsilon_st) \cup Entries(Q)
  \cup Entries(M0) \cup Entries(M1) \cup Entries(M2)
  \cup Values(a_s) \cup {c \in Values(c_i) : ~isNA(c)}

\* what a number found in memory becomes when it is read as a cell
AsCell(x) ==
  IF x > 709782 \/ x < -745133 THEN NotFinite
  ELSE IF x >= 14250 \/ x <= -8250 THEN Beyond
  ELSE Got(x)

StrayCell ==
  {NotFinite} \cup (IF beyond THEN {Beyond} ELSE {})
  \cup {AsCell(x) : x \in StrayFixed \cup LiveCells}

ReadIndex(v, k) ==
  IF k \in DOMAIN v THEN {Got(v[k])} ELSE {Aborted} \cup {Got(g) : g \in StrayIndex}

ReadCell(ss, tt) ==
  IF ss \in Idx(n_s) /\ tt \in Idx(n_t) THEN {Got(log_d_st[ss][tt])}
  ELSE LET f == ss + n_s * tt IN
       {Aborted} \cup
       (IF f \in Idx(n_s * n_t) THEN {Got(log_d_st[f % n_s][f \div n_s])}
                                ELSE StrayCell)

ReadLogDensity(k) ==
  UNION { IF sv.st = "value" /\ tv.st = "value"
            THEN ReadCell(sv.val, tv.val) ELSE {Aborted}
          : sv \in ReadIndex(s_i, k), tv \in ReadIndex(t_i, k) }

Observe ==
  /\ pc = "obs" /\ i < n_i
  /\ IF isNA(c_i[i])
       THEN /\ i' = i + 1
            /\ pc' = IF i' < n_i THEN "obs" ELSE "report"
            /\ UNCHANGED << jnll_comp, contrib, flags >>
       ELSE \E r \in ReadLogDensity(i) :
              CASE r.st = "value" ->
                     LET after == DataTermAfter(jnll_comp[DataSlot], c_i[i], r.val) IN
                     /\ jnll_comp' = [jnll_comp EXCEPT ![DataSlot] = after]
                     /\ contrib' = [contrib EXCEPT ![i] = after - jnll_comp[DataSlot]]
                     /\ i' = i + 1
                     /\ pc' = IF i' < n_i THEN "obs" ELSE "report"
                     /\ UNCHANGED flags
                [] r.st = "nan" ->
                     /\ nonfinite' = TRUE
                     /\ i' = i + 1
                     /\ pc' = IF i' < n_i THEN "obs" ELSE "report"
                     /\ UNCHANGED << jnll_comp, contrib, beyond >>
                [] r.st = "beyond" ->
                     /\ beyond' = TRUE
                     /\ i' = i + 1
                     /\ pc' = IF i' < n_i THEN "obs" ELSE "report"
                     /\ UNCHANGED << jnll_comp, contrib, nonfinite >>
                [] OTHER ->
                     /\ pc' = "failed"
                     /\ UNCHANGED << jnll_comp, contrib, i, flags >>
  /\ UNCHANGED << inputs, n_i, Range, SigmaO, SigmaE, Q, log_d_st, jnll, t, s,
                  outputs, evals, qBuilds, written, calls >>

(***************************************************************************)
(* Lines 78-86: jnll = jnll_comp.sum(), the reports, return jnll.          *)
(***************************************************************************)
\* a sum that stops one component short
SumCompShort(v) == SumFn(v, 2)

SumComp(v) == SumFn(v, 3)

Report ==
  /\ pc = "report"
  /\ jnll' = SumComp(jnll_comp)
  /\ report' = [jnll_comp |-> jnll_comp, jnll |-> jnll', Range |-> Range,
                SigmaE |-> SigmaE, SigmaO |-> SigmaO, log_d_st |-> log_d_st,
                nonfinite |-> nonfinite, beyond |-> beyond]
  /\ ret' = jnll'
  /\ pc' = "done"
  /\ UNCHANGED << inputs, n_i, jnll_comp, Range, SigmaO, SigmaE, Q, log_d_st,
                  t, s, i, flags, history, calls >>

(***************************************************************************)
(* The caller evaluates the objective again on changed inputs: some counts *)
(* replaced by NA, the observations moved to other sites and times (and    *)
(* the areas changed), omega_s negated, one time slice of epsilon_st       *)
(* negated, or the time slices of epsilon_st reordered.                    *)
(***************************************************************************)
Perms(m) == { f \in [Idx(m) -> Idx(m)] : \A a, b \in Idx(m) : f[a] = f[b] => a = b }

Perturbations ==
       { [kind |-> "mask", D |-> D, col |-> 0, perm |-> << >>] :
           D \in (SUBSET DOMAIN c_i) \ {{}} }
  \cup { [kind |-> "move", D |-> {}, col |-> d, perm |-> << >>] : d \in Designs }
  \cup { [kind |-> "negomega", D |-> {}, col |-> 0, perm |-> << >>] }
  \cup { [kind |-> "negcol", D |-> {}, col |-> b, perm |-> << >>] : b \in Idx(n_t) }
  \cup { [kind |-> "permute", D |-> {}, col |-> 0, perm |-> f] : f \in Perms(n_t) }

Perturb ==
  /\ pc = "done" /\ run = 1
  /\ \E p \in Perturbations :
       /\ xf' = p
       /\ c_i' = IF p.kind = "mask"
                   THEN [k \in DOMAIN c_i |-> IF k \in p.D THEN NA ELSE c_i[k]]
                   ELSE c_i
       /\ s_i' = IF p.kind = "move"
                   THEN [k \in DOMAIN s_i |-> SiteOf(p.col, k, n_s)] ELSE s_i
       /\ t_i' = IF p.kind = "move"
                   THEN [k \in DOMAIN t_i |-> TimeOf(p.col, k, n_s, n_t)] ELSE t_i
       /\ a_s' = IF p.kind = "move"
                   THEN [a \in DOMAIN a_s |-> a_s[a] + Unit] ELSE a_s
       /\ omega_s' = IF p.kind = "negomega"
                       THEN [a \in DOMAIN omega_s |-> -omega_s[a]] ELSE omega_s
       /\ epsilon_st' =
            IF p.kind = "negcol"
              THEN [a \in Idx(n_s) |-> [b \in Idx(n_t) |->
                      IF b = p.col THEN -epsilon_st[a][b] ELSE epsilon_st[a][b]]]
            ELSE IF p.kind = "permute"
              THEN [a \in Idx(n_s) |-> [b \in Idx(n_t) |-> epsilon_st[a][p.perm[b]]]]
            ELSE epsilon_st
  /\ prev' = [jnll_comp |-> jnll_comp, jnll |-> jnll, ret |-> ret,
              c_i |-> c_i, s_i |-> s_i, t_i |-> t_i, a_s |-> a_s,
              omega_s |-> omega_s, epsilon_st |-> epsilon_st,
              log_d_st |-> log_d_st, contrib |-> contrib, evals |-> evals]
  /\ run' = 2
  /\ pc' = "entry"
  /\ n_i' = 0 /\ jnll_comp' = Zero3 /\ Range' = 0 /\ SigmaO' = 0 /\ SigmaE' = 0
  /\ Q' = << >> /\ log_d_st' = << >> /\ jnll' = 0 /\ t' = 0 /\ s' = 0 /\ i' = 0
  /\ nonfinite' = FALSE /\ beyond' = FALSE
  /\ report' = << >> /\ ret' = 0
  /\ evals' = << >> /\ qBuilds' = 0 /\ contrib' = << >> /\ written' = << >>
  /\ UNCHANGED << n_s, n_t, M0, M1, M2, beta0, ln_tau_O, ln_tau_E, ln_kappa >>

Evaluate ==
  \/ Start \/ BuildQ \/ Spatial \/ TimeSlice \/ Alloc \/ SurfaceCell
  \/ Observe \/ Report

Next == Evaluate \/ Perturb

Spec == Init /\ [][Next]_vars


(***************************************************************************)
(* Evaluations on observation inputs that break the input contract: index  *)
(* vectors of other lengths than c_i, or indices outside the array.        *)
(***************************************************************************)
InitInvalid ==
  /\ n_s = MaxNs /\ n_t = MaxNt
  /\ a_s = [a \in Idx(n_s) |-> Unit]
  /\ \E m \in {ChainMesh(n_s)} : M0 = m.M0 /\ M1 = m.M1 /\ M2 = m.M2
  /\ beta0 = 500 /\ ln_tau_O = 0 /\ ln_tau_E = 0 /\ ln_kappa = 0
  /\ omega_s = [a \in Idx(n_s) |-> IF a % 2 = 0 THEN 500 ELSE -1000]
  /\ epsilon_st = [a \in Idx(n_s) |-> [b \in Idx(n_t) |-> 500 * ((a + 2 * b) % 3) - 500]]
  /\ \E n \in 1 .. MaxNi, ms \in 0 .. MaxNi, mt \in 0 .. MaxNi :
       /\ c_i \in [Idx(n) -> Counts]
       /\ s_i \in [Idx(ms) -> -1 .. n_s]
       /\ t_i \in [Idx(mt) -> -1 .. n_t]
  /\ ~ValidObs
  /\ Entry

SpecInvalid == InitInvalid /\ [][Evaluate]_vars

(***************************************************************************)
(* What the properties below compare the evaluation with.                  *)
(***************************************************************************)
\* -log Poisson(c; mean = exp(l))
NegLogPoisson(c, l) == Exp(l) - c * Ln(Exp(l)) + Ln(Fact(c) * Unit)

\* the penalty of the all-zero field of length m under precision A and a scale
ZeroFieldPenalty(A, scale, m) == Round(-LogDet(A), 2) + m * 919 + m * Ln(scale)

\* the evaluation returned an ordinary (finite) objective
Returned == pc = "done" /\ ~nonfinite

Reevaluated(kind) == run = 2 /\ pc = "done" /\ xf.kind = kind

(***************************************************************************)
(* C1: when an evaluation returns, jnll_comp(0) is the sum over exactly    *)
(* the observations whose count is not NA of -logPoisson(c_i[k]; mean =    *)
(* exp(log_d_st[s_i[k], t_i[k]])); each NA observation contributed exactly *)
(* zero (so the data term is 0 when every count is NA), and a count of 0   *)
(* is not missing: it contributed its full term exp(log_d_st[..]).         *)
(***************************************************************************)
C1_DataTerm ==
  Returned =>
    LET n == Size(c_i)
        l(k) == log_d_st[s_i[k]][t_i[k]]
    IN  /\ jnll_comp[0] =
             SumFn([k \in Idx(n) |->
                      IF c_i[k] = NA THEN 0 ELSE NegLogPoisson(c_i[k], l(k))], n)
        /\ \A k \in Idx(n) : c_i[k] = NA => contrib[k] = 0
        /\ \A k \in Idx(n) : c_i[k] = 0 => contrib[k] = Exp(l(k)) /\ contrib[k] > 0
        /\ (\A k \in Idx(n) : c_i[k] = NA) => jnll_comp[0] = 0

C1_Witness ==
  /\ Returned
  /\ \E j, k \in DOMAIN c_i : c_i[j] = NA /\ c_i[k] = 0 /\ contrib[k] > 0

(***************************************************************************)
(* C2: the value returned equals the reported jnll, and both equal the sum *)
(* of the three reported components jnll_comp(0) + jnll_comp(1) +          *)
(* jnll_comp(2); nothing else enters the objective.                        *)
(***************************************************************************)
C2_ObjectiveIsSum ==
  Returned =>
    /\ ret = report.jnll
    /\ report.jnll = report.jnll_comp[0] + report.jnll_comp[1] + report.jnll_comp[2]
    /\ report.jnll_comp = jnll_comp
    /\ DOMAIN report.jnll_comp = 0 .. 2

C2_Witness ==
  /\ Returned
  /\ jnll_comp[0] > 0 /\ jnll_comp[1] # 0 /\ jnll_comp[2] # 0
  /\ ret # jnll_comp[1] + jnll_comp[2]

(***************************************************************************)
(* C3: an evaluation on observation inputs that break the contract (an     *)
(* index outside [0, n_s) or [0, n_t), or c_i, s_i, t_i of unequal         *)
(* lengths) never returns an ordinary objective.                           *)
(***************************************************************************)
C3_ViolationIsFatal == Returned => ValidObs

(***************************************************************************)
(* C4: re-evaluating with the counts of a set D of observations replaced   *)
(* by NA lowers the data term by exactly the sum of the contributions the  *)
(* observations of D had before (strictly, unless they all contributed     *)
(* zero already), leaves every other observation's contribution as it was, *)
(* and does not fail.                                                      *)
(***************************************************************************)
C4_MissingDataInvariance ==
  /\ (run = 2 /\ xf.kind = "mask") => pc # "failed"
  /\ Reevaluated("mask") =>
       LET n == Size(c_i)
           before(k) == IF prev.c_i[k] = NA THEN 0
                        ELSE NegLogPoisson(prev.c_i[k],
                                           prev.log_d_st[prev.s_i[k]][prev.t_i[k]])
           dropped == SumFn([k \in Idx(n) |-> IF k \in xf.D THEN before(k) ELSE 0], n)
       IN  /\ jnll_comp[0] = prev.jnll_comp[0] - dropped
           /\ \/ jnll_comp[0] < prev.jnll_comp[0]
              \/ /\ \A k \in xf.D : prev.contrib[k] = 0
                 /\ jnll_comp[0] = prev.jnll_comp[0]
           /\ \A k \in Idx(n) \ xf.D : contrib[k] = prev.contrib[k]
           /\ \A k \in xf.D : contrib[k] = 0

C4_Witness ==
  /\ Reevaluated("mask")
  /\ \E j, k \in DOMAIN c_i :
       /\ j \in xf.D /\ prev.c_i[j] # NA
       /\ k \notin xf.D /\ prev.c_i[k] # NA
  /\ jnll_comp[0] < prev.jnll_comp[0]

(***************************************************************************)
(* C5: from the end of the surface loops on (so before the observation     *)
(* loop reads any cell) log_d_st has n_s rows and n_t columns and every    *)
(* cell [a, b] was assigned exactly once and holds                         *)
(* beta0 + omega_s[a] + epsilon_st[a, b].                                  *)
(***************************************************************************)
C5_Surface ==
  pc \in {"obs", "report", "done"} =>
    /\ DOMAIN log_d_st = Idx(n_s)
    /\ \A a \in Idx(n_s) :
         /\ DOMAIN log_d_st[a] = Idx(n_t)
         /\ \A b \in Idx(n_t) :
              /\ log_d_st[a][b] = beta0 + omega_s[a] + epsilon_st[a][b]
              /\ written[a][b] = 1

C5_Witness ==
  /\ pc = "obs" /\ i = 0
  /\ n_s >= 2 /\ n_t >= 2
  /\ log_d_st[0][1] # log_d_st[1][0]
  /\ omega_s[1] # 0

(***************************************************************************)
(* C6 as claimed: the spatial and the space-time penalty are non-negative. *)
(***************************************************************************)
C6_NonNegative == Returned => jnll_comp[1] >= 0 /\ jnll_comp[2] >= 0

(***************************************************************************)
(* C6 as amended: each penalty is at least the penalty of the all-zero     *)
(* field under the same Q and scale (the quadratic form is what cannot be  *)
(* negative): jnll_comp(1) >= -logdet(Q)/2 + n_s log(sqrt(2 pi))           *)
(* + n_s log(scaleO), and jnll_comp(2) >= n_t times the same with scaleE.  *)
(***************************************************************************)
C6_AtLeastZeroField ==
  Returned =>
    /\ jnll_comp[1] >= ZeroFieldPenalty(PrecisionQ, Div(Unit, Exp(ln_tau_O)), n_s)
    /\ jnll_comp[2] >= n_t * ZeroFieldPenalty(PrecisionQ, Div(Unit, Exp(ln_tau_E)), n_s)

C6_Witness ==
  /\ Returned
  /\ jnll_comp[1] < 0
  /\ jnll_comp[2] > n_t * ZeroFieldPenalty(PrecisionQ, Div(Unit, Exp(ln_tau_E)), n_s)
  /\ jnll_comp[2] > 0

(***************************************************************************)
(* C7: when the loop over time steps has ended, and when the evaluation    *)
(* returns, jnll_comp(2) is the sum over t in [0, n_t) of the density of   *)
(* column t of epsilon_st under Q and the scale 1/exp(ln_tau_E), there was *)
(* exactly one such evaluation per time step, and re-evaluating with the   *)
(* columns of epsilon_st permuted gives the same jnll_comp(2).             *)
(***************************************************************************)
C7_AdditiveOverTime ==
  /\ pc \in {"alloc", "done"} =>
       LET scaleE == Div(Unit, Exp(ln_tau_E))
           slices == SelectSeq(evals, LAMBDA e : e.field = "epsilon_st")
       IN  /\ jnll_comp[2] =
                SumFn([b \in Idx(n_t) |->
                         SCALE_GMRF(PrecisionQ, scaleE, Col(epsilon_st, b))], n_t)
           /\ Len(slices) = n_t
           /\ \A b \in Idx(n_t) :
                /\ Cardinality({k \in 1 .. n_t : slices[k].slice = b}) = 1
                /\ \A k \in 1 .. n_t :
                     slices[k].slice = b =>
                       /\ slices[k].Q = PrecisionQ
                       /\ slices[k].scale = scaleE
                       /\ slices[k].value =
                            SCALE_GMRF(PrecisionQ, scaleE, Col(epsilon_st, b))
  /\ Reevaluated("permute") => jnll_comp[2] = prev.jnll_comp[2]

C7_Witness ==
  /\ Reevaluated("permute")
  /\ n_t >= 2
  /\ epsilon_st # prev.epsilon_st
  /\ prev.evals[2].value # prev.evals[3].value

(***************************************************************************)
(* C8: re-evaluating with only the observations changed (counts replaced   *)
(* by NA, or s_i, t_i and a_s replaced) gives the same jnll_comp(1) and    *)
(* jnll_comp(2).                                                           *)
(***************************************************************************)
C8_RandomEffectsIgnoreData ==
  (Reevaluated("mask") \/ Reevaluated("move")) =>
    /\ jnll_comp[1] = prev.jnll_comp[1]
    /\ jnll_comp[2] = prev.jnll_comp[2]

C8_Witness ==
  /\ Reevaluated("move")
  /\ s_i # prev.s_i /\ t_i # prev.t_i /\ a_s # prev.a_s
  /\ jnll_comp[0] # prev.jnll_comp[0]
  /\ jnll_comp[1] # 0 /\ jnll_comp[2] # 0

(***************************************************************************)
(* C9: re-evaluating with omega_s negated gives the same jnll_comp(1), and *)
(* re-evaluating with one column of epsilon_st negated gives the same      *)
(* jnll_comp(2).                                                           *)
(***************************************************************************)
C9_Symmetry ==
  /\ Reevaluated("negomega") => jnll_comp[1] = prev.jnll_comp[1]
  /\ Reevaluated("negcol") => jnll_comp[2] = prev.jnll_comp[2]

C9_Witness ==
  /\ Reevaluated("negcol")
  /\ n_s >= 2
  /\ \A a \in Idx(n_s) : epsilon_st[a][xf.col] # 0
  /\ \E a \in Idx(n_s) : omega_s[a] # 0
  /\ jnll_comp[0] # prev.jnll_comp[0]

(***************************************************************************)
(* C10: in every state of an evaluation Q has been constructed at most     *)
(* once, and once before the first density evaluation; every density       *)
(* evaluation made so far used the Q that is still there; the first        *)
(* evaluation is the one of omega_s and the k-th after it is the one of    *)
(* time slice k-1, so the slices are evaluated in ascending t, all n_t of  *)
(* them by the time the evaluation returns.                                *)
(***************************************************************************)
C10_OneQAscendingT ==
  /\ qBuilds <= 1
  /\ pc \notin {"entry", "buildQ"} => qBuilds = 1 /\ Q = PrecisionQ
  /\ Len(evals) > 0 => qBuilds = 1 /\ evals[1].field = "omega_s"
  /\ \A k \in 1 .. Len(evals) : evals[k].Q = Q
  /\ \A k \in 2 .. Len(evals) :
       evals[k].field = "epsilon_st" /\ evals[k].slice = k - 2
  /\ pc \in {"alloc", "surface", "obs", "report", "done"} => Len(evals) = n_t + 1

C10_Witness ==
  /\ Returned
  /\ n_t >= 2 /\ Len(evals) = n_t + 1
  /\ evals[2].slice = 0 /\ evals[3].slice = 1
  /\ Q[0][0] # Unit

=============================================================================
